---- MODULE Spec2Model ----
(***************************************************************************)
(* Model of djin's MoneyMonk browser automation                            *)
(* (src/djin/features/accounting): the playwright_context session scope,   *)
(* the three flows that run inside it (register_hours_on_website called    *)
(* by register_hours_node, login_to_moneymonk, login_command) and the      *)
(* exception handlers around them.                                         *)
(*                                                                         *)
(* A program position is a label made of a letter and the source line of   *)
(* the statement it stands for: "R303" is line 303 of                      *)
(* register_hours_on_website, "M183" line 183 of login_to_moneymonk,       *)
(* "C141" line 141 of login_command, "P108" line 108 of                    *)
(* playwright_context, "N80" line 80 of register_hours_node.  A line that  *)
(* makes several page calls gets a suffix ("R328a", "R328b", "R328c").     *)
(***************************************************************************)
EXTENDS Integers, Sequences, FiniteSets, TLC

VARIABLES
    fn,           \* entry point of this run
    env,          \* what the environment provides: [creds, baseUrl]
    pc,           \* position of the run
    acquired,     \* playwright_context: resources bound to pw/browser/context/page
    closeCalls,   \* playwright_context: close()/stop() calls made per resource
    exc,          \* exception in flight
    ret,          \* value of a return statement being unwound through the scope
    bodyOut,      \* how the with-body ended: what it raised or returned
    withOut,      \* what left the with statement
    tdFailed,     \* a teardown step raised
    result,       \* what the caller of the entry point receives
    outcomes,     \* number of results delivered to the caller
    calls,        \* page actions called so far, by step
    authState,    \* position of the login handshake
    finalProbe,   \* what the final login probe saw
    form,         \* the remote UI: are the entry form's inputs visible
    stayed,       \* per input: it was visible at every moment since the submit click
    sawFormGone,  \* a check after the submit click found both inputs not visible
    selIdx,       \* index in error_selectors (loop at line 471)
    nOptions,     \* len(all_options) found at line 228
    tdOrder,      \* resources in the order their close was called
    raised,       \* the calls of the body that raised: <<position, selIdx, class>>
    totp,         \* the TOTP code: computed or filled, and what came between
    textMatch,    \* the remote UI: a rendered option contains the project name
    shown,        \* the remote UI: what the selector displays after the choice
    cr,           \* credential resolution: the sources, what was read, the outcome
    shots,        \* positions of the screenshot calls that completed
    wf,           \* the register-hours workflow: its RegisterHoursState
    rt,           \* retry_operation: its arguments, locals and what it did
    st,           \* common/state.py: DEFAULT_STATE, the state file, the last state
    inv           \* concurrent invocations of the register-hours path

vars == <<fn, env, pc, acquired, closeCalls, exc, ret, bodyOut, withOut, tdFailed,
          result, outcomes, calls, authState, finalProbe, form, stayed,
          sawFormGone, selIdx, nOptions, tdOrder, raised, totp, textMatch,
          shown, cr, shots, wf, rt, st, inv>>

----------------------------------------------------------------------------
(* Exceptions.  The handlers of the source tell four classes apart:        *)
(* PlaywrightTimeoutError (a subclass of PlaywrightError), PlaywrightError,*)
(* the application's ConfigurationError and MoneyMonkError, and any other  *)
(* Exception.  src records where the exception (or the one it wraps) was   *)
(* raised.                                                                 *)

NoExc == [cls |-> "none", msg |-> "", src |-> "none"]

Exc(cls, msg, src) == [cls |-> cls, msg |-> msg, src |-> src]

IsPlaywrightError(e) == e.cls \in {"PlaywrightTimeoutError", "PlaywrightError"}

IsException(e) == e.cls # "none"

\* Classes a failing browser call can raise.
RaiseKinds == {"PlaywrightTimeoutError", "PlaywrightError", "Exception"}

\* Calls that do not wait for anything cannot time out.
FailKinds(op) ==
    CASE op \in {"is_visible", "wait_for_timeout", "query_selector_all", "content"}
             -> {"PlaywrightError", "Exception"}
      [] op = "totp" -> {"Exception"}
      [] OTHER -> RaiseKinds

----------------------------------------------------------------------------
(* Program tables: for each position the statement at that line.           *)
(*   op    the call (goto, fill, click, wait_for_timeout, wait_for_selector,*)
(*         screenshot, content, text_content, is_visible, ...) or          *)
(*         return / raise                                                  *)
(*   what  for is_visible: the element probed                              *)
(*   act   the step of the flow the call performs ("none" for waits and    *)
(*         diagnostics)                                                    *)
(*   t, f  next position (for is_visible: when visible / when not)         *)
(*   try   the innermost try block around the statement                    *)

Op(line, op, act, next, try) ==
    [line |-> line, op |-> op, what |-> "none", act |-> act,
     t |-> next, f |-> next, try |-> try, cls |-> "none", msg |-> ""]

Probe(line, what, t, f, try) ==
    [line |-> line, op |-> "is_visible", what |-> what, act |-> "none",
     t |-> t, f |-> f, try |-> try, cls |-> "none", msg |-> ""]

Return(line, val) ==
    [line |-> line, op |-> "return", what |-> "none", act |-> "none",
     t |-> val, f |-> val, try |-> "none", cls |-> "none", msg |-> ""]

Raise(line, cls, msg) ==
    [line |-> line, op |-> "raise", what |-> "none", act |-> "none",
     t |-> "", f |-> "", try |-> "none", cls |-> cls, msg |-> msg]

NumErrorSelectors == 4

\* register_hours_on_website, lines 272-331: credentials and login.
RegisterLoginSteps ==
       "R283"  :> Op(283, "creds", "none", "R291", "none")
    @@ "R291"  :> Op(291, "goto", "goto_login", "R294", "none")
    @@ "R294"  :> Op(294, "wait_for_timeout", "none", "R298", "none")
    @@ "R298"  :> Op(298, "fill", "fill_email", "R299", "none")
    @@ "R299"  :> Op(299, "fill", "fill_password", "R303", "none")
    @@ "R303"  :> Op(303, "click", "cred_submit", "R306", "none")
    @@ "R306"  :> Op(306, "wait_for_timeout", "none", "R309", "none")
    @@ "R309"  :> Probe(309, "mfa", "R312", "R328a", "none")
    @@ "R312"  :> Op(312, "totp", "totp_now", "R316", "none")
    @@ "R316"  :> Op(316, "fill", "totp_fill", "R320", "none")
    @@ "R320"  :> Op(320, "click", "totp_submit", "R323", "none")
    @@ "R323"  :> Op(323, "wait_for_timeout", "none", "R328a", "none")
    @@ "R328a" :> Probe(328, "final_email", "R329", "R328b", "none")
    @@ "R328b" :> Probe(328, "final_password", "R329", "R328c", "none")
    @@ "R328c" :> Probe(328, "final_code", "R329", "R341", "none")
    @@ "R329"  :> Raise(329, "MoneyMonkError", "Login failed, cannot register hours.")

\* register_hours_on_website, lines 333-484: the entry form.
RegisterEntrySteps ==
       "R341"  :> Op(341, "base_url", "none", "R350", "none")
    @@ "R350"  :> Op(350, "goto", "goto_entry", "R353", "none")
    @@ "R353"  :> Op(353, "wait_for_timeout", "none", "R358", "none")
    @@ "R358"  :> Op(358, "screenshot", "none", "R368", "none")
    @@ "R368"  :> Probe(368, "add_entry", "R370", "R381", "none")
    @@ "R370"  :> Op(370, "click", "open_editor", "R371", "none")
    @@ "R371"  :> Op(371, "wait_for_timeout", "none", "R381", "none")
    @@ "R381"  :> Op(381, "content", "none", "R390", "none")
    @@ "R390"  :> Op(390, "wait_for_selector", "none", "R393", "form_wait")
    @@ "R393"  :> Op(393, "wait_for_selector", "none", "R396", "form_wait")
    @@ "R396"  :> Op(396, "wait_for_selector", "none", "R410", "form_wait")
    @@ "R400"  :> Op(400, "screenshot", "none", "R402", "none")
    @@ "R402"  :> Raise(402, "MoneyMonkError", "Could not find registration form elements")
    @@ "R410"  :> Op(410, "fill", "fill_desc", "R413", "none")
    @@ "R413"  :> Op(413, "fill", "fill_hours", "R417", "none")
    @@ "R417"  :> Op(417, "screenshot", "none", "R422", "none")
    @@ "R422"  :> Op(422, "click", "submit", "R425", "none")
    @@ "R425"  :> Op(425, "wait_for_timeout", "none", "R429", "none")
    @@ "R429"  :> Op(429, "screenshot", "none", "R439", "none")
    @@ "R439"  :> Op(439, "wait_for_timeout", "none", "R443", "none")
    @@ "R443"  :> Op(443, "screenshot", "none", "R447a", "none")
    @@ "R447a" :> Probe(447, "desc", "R464a", "R447b", "none")
    @@ "R447b" :> Probe(447, "hours", "R464a", "R454", "none")
    @@ "R454"  :> Probe(454, "entry", "R461", "R461", "entry_lookup")
    @@ "R461"  :> Return(461, "True")
    @@ "R464a" :> Probe(464, "desc", "R471", "R464b", "none")
    @@ "R464b" :> Probe(464, "hours", "R471", "R484", "none")
    @@ "R471"  :> Op(471, "for", "none", "R472", "none")
    @@ "R472"  :> Probe(472, "error_selector", "R474", "R471", "none")
    @@ "R474"  :> Op(474, "text_content", "none", "R480", "err_text")
    @@ "R480"  :> Raise(480, "MoneyMonkError", "Hour registration failed")
    @@ "R484"  :> Return(484, "True")

\* Variants of the program, each with one plausible slip, used to see that
\* the properties below depend on the code.
\*   line 329: the rejected login is tried again instead of raising
RegisterRetriesLogin ==
    ("R329" :> Op(329, "wait_for_timeout", "none", "R298", "none"))
        @@ RegisterLoginSteps @@ RegisterEntrySteps

\*   line 464: a form that is still visible is submitted again
RegisterResubmits ==
    ("R464a" :> Probe(464, "desc", "R422", "R464b", "none"))
        @@ RegisterLoginSteps @@ RegisterEntrySteps

\*   line 328: the check leaves out the MFA field
RegisterIgnoresMfaField ==
    ("R328c" :> Probe(328, "final_code", "R341", "R341", "none"))
        @@ RegisterLoginSteps @@ RegisterEntrySteps

\*   line 309: the TOTP step runs whether or not the MFA field is visible
RegisterAlwaysFillsTotp ==
    ("R309" :> Probe(309, "mfa", "R316", "R316", "none"))
        @@ RegisterLoginSteps @@ RegisterEntrySteps

register_hours_on_website == RegisterLoginSteps @@ RegisterEntrySteps

\* login_to_moneymonk, lines 149-230 (the credentials are resolved before
\* the with statement).
login_to_moneymonk ==
       "M160"  :> Op(160, "creds", "none", "P94", "none")
    @@ "M171"  :> Op(171, "goto", "goto_login", "M174", "none")
    @@ "M174"  :> Op(174, "wait_for_timeout", "none", "M178", "none")
    @@ "M178"  :> Op(178, "fill", "fill_email", "M179", "none")
    @@ "M179"  :> Op(179, "fill", "fill_password", "M183", "none")
    @@ "M183"  :> Op(183, "click", "cred_submit", "M186", "none")
    @@ "M186"  :> Op(186, "wait_for_timeout", "none", "M192", "none")
    @@ "M192"  :> Op(192, "screenshot", "none", "M195", "none")
    @@ "M195"  :> Probe(195, "mfa", "M198", "M216", "none")
    @@ "M198"  :> Op(198, "totp", "totp_now", "M202", "none")
    @@ "M202"  :> Op(202, "fill", "totp_fill", "M206", "none")
    @@ "M206"  :> Op(206, "click", "totp_submit", "M209", "none")
    @@ "M209"  :> Op(209, "wait_for_timeout", "none", "M216", "none")
    @@ "M216"  :> Op(216, "screenshot", "none", "M222a", "none")
    @@ "M222a" :> Probe(222, "final_email", "M223", "M222b", "none")
    @@ "M222b" :> Probe(222, "final_password", "M223", "M225", "none")
    @@ "M223"  :> Raise(223, "MoneyMonkError", "Login failed: Still on login screen.")
    @@ "M225"  :> Probe(225, "final_code", "M226", "M230", "none")
    @@ "M226"  :> Raise(226, "MoneyMonkError", "Login failed: Still on TOTP screen.")
    @@ "M230"  :> Return(230, "True")

\* login_command, lines 102-165: base URL check, credentials and login.
CommandLoginSteps ==
       "C102"  :> Op(102, "base_url", "none", "P94", "none")
    @@ "C125"  :> Op(125, "creds", "none", "C133", "none")
    @@ "C133"  :> Op(133, "goto", "goto_login", "C134", "none")
    @@ "C134"  :> Op(134, "wait_for_timeout", "none", "C137", "none")
    @@ "C137"  :> Op(137, "fill", "fill_email", "C138", "none")
    @@ "C138"  :> Op(138, "fill", "fill_password", "C141", "none")
    @@ "C141"  :> Op(141, "click", "cred_submit", "C142", "none")
    @@ "C142"  :> Op(142, "wait_for_timeout", "none", "C145", "none")
    @@ "C145"  :> Probe(145, "mfa", "C149", "C157a", "none")
    @@ "C149"  :> Op(149, "totp", "totp_now", "C152", "none")
    @@ "C152"  :> Op(152, "fill", "totp_fill", "C153", "none")
    @@ "C153"  :> Op(153, "click", "totp_submit", "C154", "none")
    @@ "C154"  :> Op(154, "wait_for_timeout", "none", "C157a", "none")
    @@ "C157a" :> Probe(157, "final_email", "C161", "C157b", "none")
    @@ "C157b" :> Probe(157, "final_password", "C161", "C157c", "none")
    @@ "C157c" :> Probe(157, "final_code", "C161", "C170", "none")
    @@ "C161"  :> Op(161, "screenshot", "none", "C163", "none")
    @@ "C163"  :> Return(163, "False")

\* login_command, lines 167-297: the entry form.
CommandFormSteps ==
       "C170"  :> Op(170, "goto", "goto_entry", "C174", "none")
    @@ "C174"  :> Op(174, "wait_for_timeout", "none", "C179", "none")
    @@ "C179"  :> Op(179, "screenshot", "none", "C193", "none")
    @@ "C193"  :> Probe(193, "time_input", "C200", "C293", "none")
    @@ "C200"  :> Probe(200, "add_entry", "C202", "C207", "fill")
    @@ "C202"  :> Op(202, "click", "open_editor", "C203", "fill")
    @@ "C203"  :> Op(203, "wait_for_timeout", "none", "C207", "fill")
    @@ "C207"  :> Op(207, "fill", "fill_hours", "C211", "fill")
    @@ "C211"  :> Op(211, "fill", "fill_desc", "C216", "fill")
    @@ "C216"  :> Op(216, "click", "open_selector", "C220", "fill")
    @@ "C220"  :> Op(220, "wait_for_selector", "none", "C225", "fill")
    @@ "C225"  :> Op(225, "wait_for_timeout", "none", "C228", "fill")
    @@ "C228"  :> Op(228, "query_selector_all", "none", "C231", "fill")
    @@ "C231"  :> Op(231, "click", "select_index", "C240", "fill")
    @@ "C236"  :> Op(236, "click", "select_text", "C240", "fill")
    @@ "C240"  :> Op(240, "wait_for_timeout", "none", "C243", "fill")
    @@ "C243"  :> Op(243, "wait_for_selector", "none", "C244", "verify")
    @@ "C244"  :> Op(244, "text_content", "none", "C262", "verify")
    @@ "C250"  :> Op(250, "text_content", "none", "C254", "fill")
    @@ "C254"  :> Op(254, "screenshot", "none", "C262", "fill")
    @@ "C262"  :> Op(262, "wait_for_timeout", "none", "C267", "fill")
    @@ "C267"  :> Op(267, "click", "submit", "C271", "fill")
    @@ "C271"  :> Op(271, "wait_for_timeout", "none", "C297", "fill")
    @@ "C277"  :> Op(277, "screenshot", "none", "C279", "none")
    @@ "C279"  :> Return(279, "False")
    @@ "C284"  :> Op(284, "screenshot", "none", "C286", "none")
    @@ "C286"  :> Return(286, "False")
    @@ "C293"  :> Op(293, "screenshot", "none", "C295", "none")
    @@ "C295"  :> Return(295, "False")
    @@ "C297"  :> Return(297, "True")

login_command == CommandLoginSteps @@ CommandFormSteps

Prog == register_hours_on_website @@ login_to_moneymonk @@ login_command

----------------------------------------------------------------------------
(* Credential resolution: _get_moneymonk_credentials and the lines of its  *)
(* callers around it.  A value is represented by the source it came from.  *)

Fields == {"url", "username", "password", "totp_secret"}

\* What each source can hold: os.environ any field (LOGIN_URL, EMAIL,
\* PASSWORD, TOTP_SECRET); the moneymonk section of the config file the url
\* and the username; the keyring the password and the TOTP secret.
EnvFields == Fields
ConfigFields == {"url", "username"}
KeyringFields == {"password", "totp_secret"}

NoFrom == [f \in Fields |-> "none"]

Resolved(from) == [kind |-> "ok", from |-> from]

ConfigurationError == [kind |-> "ConfigurationError", from |-> NoFrom]

\* The other parts of the program at rest.
NoWorkflow == [at |-> "idle"]

\* retry_operation not called.
NoRetry ==
    [at |-> "idle", max_retries |-> 1, retry_delay |-> 1,
     error_types |-> {"Exception"}, retries |-> 0, calls |-> 0,
     waits |-> <<>>, e |-> "none", failures |-> <<>>,
     out |-> [kind |-> "none", val |-> "none"]]

\* common/state.py.  A state dict holds current_task and references to its
\* two nested dicts; heap gives the contents of the nested dicts.  D_tt and
\* D_ls are the nested dicts of DEFAULT_STATE, L_tt and L_ls the ones that
\* json.load builds.
None == "None"

TimeTrackingDefault == [active |-> FALSE, started_at |-> None, task_key |-> None]

LastSyncDefault == [jira |-> None, moneymonk |-> None]

\* Lines 15-19.
DEFAULT_STATE == [current_task |-> None, time_tracking |-> "D_tt", last_sync |-> "D_ls"]

\* The contents of a state dict d in heap h.
Value(d, h) ==
    [current_task |-> d.current_task,
     time_tracking |-> h.tt[d.time_tracking],
     last_sync |-> h.ls[d.last_sync]]

OriginalDefaults ==
    [current_task |-> None,
     time_tracking |-> TimeTrackingDefault,
     last_sync |-> LastSyncDefault]

\* The module just imported and no state file written: file is absent,
\* invalid JSON, or JSON with the data of a state; ret is what the last
\* operation returned and src where load_state took it from.
NoStore ==
    [file |-> [kind |-> "absent", data |-> OriginalDefaults],
     dflt |-> DEFAULT_STATE,
     heap |-> [tt |-> [o \in {"D_tt", "L_tt"} |-> TimeTrackingDefault],
               ls |-> [o \in {"D_ls", "L_ls"} |-> LastSyncDefault]],
     op |-> "none",
     src |-> "none",
     ret |-> OriginalDefaults]

\* Concurrent invocations of the register-hours path.
MaxInvocations == 2

Invocations == 1..MaxInvocations

\* The objects an invocation creates and binds to its own local names.
HandleKinds == {"browser", "context", "page", "creds"}

\* No invocation started: api is the module-level _accounting_agent_api
\* (0 for None); a handle is the number of the object among those of its
\* kind, 0 for a name not bound; made counts the objects created; acted
\* holds <<invocation, page>> for every page operation performed.
NoInvocations ==
    [pc |-> [i \in Invocations |-> "A18"],
     api |-> 0,
     apis |-> 0,
     handle |-> [i \in Invocations |-> [k \in HandleKinds |-> 0]],
     made |-> [k \in HandleKinds |-> 0],
     created |-> {},
     acted |-> {}]

NoResolution ==
    [env |-> {}, cfg |-> {}, kr |-> {}, creds |-> NoFrom,
     out |-> [kind |-> "none", from |-> NoFrom]]

\* a or b on two values that may be empty.
OrElse(a, b) == IF a # "none" THEN a ELSE b

\* os.environ.get / mm_config.get / keyring.get_password of field f.
EnvGet(e, f) == IF f \in e THEN "env" ELSE "none"
ConfigGet(c, f) == IF f \in c THEN "config" ELSE "none"
KeyringGet(k, f) == IF f \in k THEN "keyring" ELSE "none"

\* _get_moneymonk_credentials(), lines 27-80, for environment e, config
\* section c and keyring k.
get_moneymonk_credentials(e, c, k) ==
    LET url == OrElse(EnvGet(e, "url"), ConfigGet(c, "url"))
        username == OrElse(EnvGet(e, "username"), ConfigGet(c, "username"))
        password == KeyringGet(k, "password")
        totp_secret == KeyringGet(k, "totp_secret")
    IN  IF \A f \in Fields : EnvGet(e, f) # "none"
        THEN Resolved([f \in Fields |-> "env"])
        ELSE IF url = "none" \/ username = "none" THEN ConfigurationError
        ELSE IF password = "none" THEN ConfigurationError
        ELSE IF totp_secret = "none" THEN ConfigurationError
        ELSE Resolved([url |-> url, username |-> username, password |-> password,
                       totp_secret |-> totp_secret])

----------------------------------------------------------------------------
(* The run.                                                                *)

Fns == {"register_hours_node", "login_to_moneymonk", "login_command"}

Resources == <<"page", "context", "browser", "pw">>

ResourceSet == {Resources[i] : i \in 1..Len(Resources)}

Acts == {"goto_login", "fill_email", "fill_password", "cred_submit", "totp_now",
         "totp_fill", "totp_submit", "goto_entry", "open_editor", "fill_hours",
         "fill_desc", "open_selector", "select_index", "select_text", "submit"}

Forms == [desc : BOOLEAN, hours : BOOLEAN]

\* Largest number of options the project dropdown renders.
MaxOptions == 2

NoResult == [ok |-> FALSE, cls |-> "pending", msg |-> "", src |-> "none"]

NoOut == [kind |-> "none", exc |-> NoExc, val |-> "none"]

\* No TOTP code computed yet.  detected: the MFA field had been seen when the
\* code was computed; gap: a wait, navigation or click came after it.
NoTotp == [state |-> "none", detected |-> FALSE, gap |-> FALSE]

\* What the selector's value display can show after an option was clicked:
\* the expected project, another value, or no value element at all.
Displays == {"match", "mismatch", "absent"}

\* First statement of the run.
EntryPc(f) ==
    CASE f = "register_hours_node" -> "N78"
      [] f = "login_to_moneymonk" -> "M160"
      [] f = "login_command" -> "C102"

\* First statement of the with-body.
BodyStart(f) ==
    CASE f = "register_hours_node" -> "R283"
      [] f = "login_to_moneymonk" -> "M171"
      [] f = "login_command" -> "C125"

\* Statements that run before the with statement is entered.
BeforeWith == {"M160", "C102"}

InBody == pc \in DOMAIN Prog

Init ==
    /\ fn \in Fns
    /\ env \in [creds : BOOLEAN, baseUrl : BOOLEAN]
    /\ pc = EntryPc(fn)
    /\ acquired = {}
    /\ closeCalls = [r \in ResourceSet |-> 0]
    /\ exc = NoExc
    /\ ret = "none"
    /\ bodyOut = NoOut
    /\ withOut = NoOut
    /\ tdFailed = FALSE
    /\ result = NoResult
    /\ outcomes = 0
    /\ calls = [a \in Acts |-> 0]
    /\ authState = "Start"
    /\ finalProbe = "none"
    /\ form = [desc |-> TRUE, hours |-> TRUE]
    /\ stayed = [desc |-> TRUE, hours |-> TRUE]
    /\ sawFormGone = FALSE
    /\ selIdx = 0
    /\ nOptions = 0
    /\ tdOrder = <<>>
    /\ raised = {}
    /\ totp = NoTotp
    /\ textMatch = FALSE
    /\ shown = "none"
    /\ cr = NoResolution
    /\ shots = {}
    /\ wf = NoWorkflow
    /\ rt = NoRetry
    /\ st = NoStore
    /\ inv = NoInvocations

scopeVars == <<acquired, closeCalls, tdFailed, tdOrder>>
flowVars == <<calls, authState, finalProbe, form, stayed, sawFormGone, selIdx, nOptions,
              raised, totp, textMatch, shown, shots>>
outVars == <<result, outcomes>>

\* The variables of the other parts of the program, which a browser run
\* leaves alone.
subVars == <<cr, wf, rt, st, inv>>

\* register_hours_node line 78: the call of register_hours_on_website, whose
\* first statement is the with statement of line 270.
Invoke ==
    /\ pc = "N78"
    /\ pc' = "P94"
    /\ UNCHANGED <<fn, env, subVars, exc, ret, bodyOut, withOut>>
    /\ UNCHANGED <<scopeVars, flowVars, outVars>>

----------------------------------------------------------------------------
(* playwright_context, lines 93-101: acquisition.                          *)

AcquireSteps ==
       "P94" :> [res |-> "pw", next |-> "P96"]
    @@ "P96" :> [res |-> "browser", next |-> "P97"]
    @@ "P97" :> [res |-> "context", next |-> "P98"]
    @@ "P98" :> [res |-> "page", next |-> "P99"]
    @@ "P99" :> [res |-> "none", next |-> "yield"]

AcquireOk ==
    /\ pc \in DOMAIN AcquireSteps
    /\ LET s == AcquireSteps[pc] IN
        /\ acquired' = IF s.res = "none" THEN acquired ELSE acquired \cup {s.res}
        /\ pc' = IF s.next = "yield" THEN BodyStart(fn) ELSE s.next
    /\ UNCHANGED <<fn, env, subVars, exc, ret, bodyOut, withOut, closeCalls, tdFailed, tdOrder>>
    /\ UNCHANGED <<flowVars, outVars>>

\* A failing acquisition step binds nothing and raises inside the try of line 93.
AcquireRaise ==
    /\ pc \in DOMAIN AcquireSteps
    /\ \E k \in RaiseKinds : exc' = Exc(k, "raw", "setup")
    /\ pc' = "P102"
    /\ UNCHANGED <<fn, env, subVars, ret, bodyOut, withOut>>
    /\ UNCHANGED <<scopeVars, flowVars, outVars>>

----------------------------------------------------------------------------
(* The with-body: one action per kind of statement.                        *)

PageOps == {"goto", "fill", "click", "wait_for_timeout", "wait_for_selector",
            "screenshot", "content", "text_content"}

Count(act) == IF act = "none" THEN calls ELSE [calls EXCEPT ![act] = @ + 1]

\* The login handshake advances when its step has completed.
AuthAfter(act) ==
    CASE act = "fill_password" -> "CredentialsEntered"
      [] act = "cred_submit" -> "PrimarySubmitted"
      [] act = "totp_submit" -> "MFASubmitted"
      [] OTHER -> authState

\* The remote UI: once the form was submitted its inputs may appear or
\* disappear at any later page call.
UIStep ==
    IF calls'["submit"] > 0
    THEN /\ form' \in Forms
         /\ stayed' = [desc |-> stayed.desc /\ form'.desc,
                       hours |-> stayed.hours /\ form'.hours]
    ELSE UNCHANGED <<form, stayed>>

\* Where a raise of class k inside try block t continues: the position of the
\* except clause that catches it, or "P102" (the exception is thrown into
\* playwright_context at its yield).
\*   form_wait     lines 384-402: except PlaywrightTimeoutError
\*   entry_lookup  lines 451-459: except Exception (logged, then line 461)
\*   err_text      lines 473-478: except Exception: pass (next selector)
\*   verify        lines 241-257 of commands.py: except PlaywrightTimeoutError,
\*                 nested in fill
\*   fill          lines 197-286 of commands.py: except PlaywrightTimeoutError,
\*                 except Exception
\* The variants: a timeout in fill is logged and the flow goes on to the
\* submit click; the form is filled after the wait for it timed out.
HandlerSwallowsFillTimeout(t, k) ==
    IF t = "form_wait" /\ k = "PlaywrightTimeoutError" THEN "R400"
    ELSE IF t = "entry_lookup" THEN "R461"
    ELSE IF t = "err_text" THEN "R471"
    ELSE IF t = "verify" /\ k = "PlaywrightTimeoutError" THEN "C250"
    ELSE IF t \in {"verify", "fill"}
         THEN (IF k = "PlaywrightTimeoutError" THEN "C262" ELSE "C284")
    ELSE "P102"

HandlerContinuesAfterFormTimeout(t, k) ==
    IF t = "form_wait" /\ k = "PlaywrightTimeoutError" THEN "R410"
    ELSE IF t = "entry_lookup" THEN "R461"
    ELSE IF t = "err_text" THEN "R471"
    ELSE IF t = "verify" /\ k = "PlaywrightTimeoutError" THEN "C250"
    ELSE IF t \in {"verify", "fill"}
         THEN (IF k = "PlaywrightTimeoutError" THEN "C277" ELSE "C284")
    ELSE "P102"

Handler(t, k) ==
    IF t = "form_wait" /\ k = "PlaywrightTimeoutError" THEN "R400"
    ELSE IF t = "entry_lookup" THEN "R461"
    ELSE IF t = "err_text" THEN "R471"
    ELSE IF t = "verify" /\ k = "PlaywrightTimeoutError" THEN "C250"
    ELSE IF t \in {"verify", "fill"}
         THEN (IF k = "PlaywrightTimeoutError" THEN "C277" ELSE "C284")
    ELSE "P102"

\* A raise of exception e at the current statement, inside try block t.
RaiseAt(e, t) ==
    LET h == Handler(t, e.cls) IN
    IF h # "P102"
    THEN /\ pc' = h
         /\ UNCHANGED <<exc, bodyOut>>
    ELSE IF pc \in BeforeWith
    THEN /\ pc' = "H"
         /\ exc' = e
         /\ UNCHANGED bodyOut
    ELSE /\ pc' = "P102"
         /\ exc' = e
         /\ bodyOut' = [kind |-> "raise", exc |-> e, val |-> "none"]

\* The TOTP code after the page call of table entry e: the fill of line 316
\* (154 in commands.py) uses it; a navigation, click or wait before the fill
\* comes between the computation and the fill.
TotpAfter(e) ==
    IF totp.state # "computed" THEN totp
    ELSE IF e.act = "totp_fill" THEN [totp EXCEPT !.state = "filled"]
    ELSE IF e.op \in {"goto", "click", "wait_for_timeout", "wait_for_selector"}
         THEN [totp EXCEPT !.gap = TRUE]
    ELSE totp

\* What the remote UI lets the call at position p do.  The click on the
\* option containing the project name (line 236) completes only when such an
\* option is rendered; the wait for the display to contain the name (line
\* 243) completes only when it does; the read of the display (line 250)
\* completes only when a value element is present.
CanComplete(p) ==
    CASE p = "C236" -> textMatch
      [] p = "C243" -> shown = "match"
      [] p = "C250" -> shown # "absent"
      [] OTHER -> TRUE

\* The wait of line 243 times out only when the display does not contain the
\* name, the read of line 250 only when no value element is present.
CanRaise(p, k) ==
    CASE p = "C243" /\ k = "PlaywrightTimeoutError" -> shown # "match"
      [] p = "C250" /\ k = "PlaywrightTimeoutError" -> shown = "absent"
      [] OTHER -> TRUE

\* A page call that completes.
PageCall ==
    /\ InBody
    /\ Prog[pc].op \in PageOps
    /\ LET e == Prog[pc] IN
        /\ CanComplete(pc)
        /\ pc' = e.t
        /\ calls' = Count(e.act)
        /\ authState' = AuthAfter(e.act)
        /\ totp' = TotpAfter(e)
        /\ IF e.act \in {"select_index", "select_text"}
           THEN shown' \in Displays
           ELSE shown' = shown
        /\ UIStep
    /\ UNCHANGED <<fn, env, subVars, exc, ret, bodyOut, withOut>>
    /\ UNCHANGED <<scopeVars, outVars, finalProbe, sawFormGone, selIdx, nOptions>>
    /\ UNCHANGED <<raised, textMatch>>
    /\ shots' = IF Prog[pc].op = "screenshot" THEN shots \cup {pc} ELSE shots

\* A page call (or the TOTP computation) that raises.
PageRaise ==
    /\ InBody
    /\ Prog[pc].op \in PageOps \cup {"is_visible", "query_selector_all", "totp"}
    /\ LET e == Prog[pc] IN
        /\ calls' = Count(e.act)
        /\ totp' = TotpAfter(e)
        /\ \E k \in FailKinds(e.op) :
            /\ CanRaise(pc, k)
            /\ raised' = raised \cup {<<pc, selIdx, k>>}
            /\ RaiseAt(Exc(k, "raw", "body"), e.try)
    /\ UNCHANGED <<fn, env, subVars, ret, withOut>>
    /\ UNCHANGED <<scopeVars, outVars>>
    /\ UNCHANGED <<authState, finalProbe, form, stayed, sawFormGone, selIdx, nOptions>>
    /\ UNCHANGED <<textMatch, shown, shots>>

\* page.is_visible(selector) returns.  The probes of the entry form's inputs
\* read the remote UI; the other elements are visible or not as the remote
\* site decides.
IsVisible ==
    /\ InBody
    /\ Prog[pc].op = "is_visible"
    /\ LET e == Prog[pc] IN
        /\ calls' = calls
        /\ UIStep
        /\ \E b \in BOOLEAN :
            /\ e.what = "desc" => b = form'.desc
            /\ e.what = "hours" => b = form'.hours
            /\ pc' = IF b THEN e.t ELSE e.f
            /\ authState' =
                 CASE e.what = "mfa" /\ b -> "MFARequired"
                   [] e.what \in {"final_email", "final_password", "final_code"} /\ b
                        -> "Failed"
                   [] e.what = "final_code" /\ ~b -> "Authenticated"
                   [] OTHER -> authState
            /\ finalProbe' =
                 CASE e.what \in {"final_email", "final_password"} /\ b -> "login_field"
                   [] e.what = "final_code" /\ b -> "mfa_field"
                   [] e.what = "final_code" /\ ~b -> "clear"
                   [] OTHER -> finalProbe
            /\ sawFormGone' = (sawFormGone \/ (e.what = "hours" /\ ~b))
    /\ UNCHANGED <<fn, env, subVars, exc, ret, bodyOut, withOut>>
    /\ UNCHANGED <<scopeVars, outVars, selIdx, nOptions>>
    /\ UNCHANGED <<raised, totp, textMatch, shown, shots>>

\* The credentials: os.environ and, when a field is missing there,
\* _get_moneymonk_credentials(), which raises ConfigurationError when a
\* field is in none of its sources.
ResolveCredentials ==
    /\ InBody
    /\ Prog[pc].op = "creds"
    /\ IF env.creds
       THEN /\ pc' = Prog[pc].t
            /\ UNCHANGED <<exc, bodyOut>>
       ELSE RaiseAt(Exc("ConfigurationError", "not configured", "body"), "none")
    /\ UNCHANGED <<fn, env, subVars, ret, withOut>>
    /\ UNCHANGED <<scopeVars, flowVars, outVars>>

\* os.environ.get("BASE_TIME_ENTRY_URL"): register_hours_on_website raises
\* ConfigurationError (line 344) when it is not set, login_command returns
\* False (line 108).
CheckBaseUrl ==
    /\ InBody
    /\ Prog[pc].op = "base_url"
    /\ IF env.baseUrl
       THEN /\ pc' = Prog[pc].t
            /\ UNCHANGED <<exc, ret, bodyOut>>
       ELSE IF pc = "C102"
       THEN /\ pc' = "H"
            /\ ret' = "False"
            /\ UNCHANGED <<exc, bodyOut>>
       ELSE /\ RaiseAt(Exc("ConfigurationError", "BASE_TIME_ENTRY_URL not set", "body"), "none")
            /\ UNCHANGED ret
    /\ UNCHANGED <<fn, env, subVars, withOut>>
    /\ UNCHANGED <<scopeVars, flowVars, outVars>>

\* pyotp.TOTP(totp_secret).now() returns the current code.
TotpNow ==
    /\ InBody
    /\ Prog[pc].op = "totp"
    /\ pc' = Prog[pc].t
    /\ calls' = Count(Prog[pc].act)
    /\ totp' = [state |-> "computed", detected |-> (authState = "MFARequired"),
                gap |-> FALSE]
    /\ UNCHANGED <<fn, env, subVars, exc, ret, bodyOut, withOut>>
    /\ UNCHANGED <<scopeVars, outVars>>
    /\ UNCHANGED <<authState, finalProbe, form, stayed, sawFormGone, selIdx, nOptions>>
    /\ UNCHANGED <<raised, textMatch, shown, shots>>

\* Variant: the option at index 1 is clicked as soon as one option exists.
QueryOptionsFromOne ==
    /\ InBody
    /\ Prog[pc].op = "query_selector_all"
    /\ \E n \in 0..MaxOptions, m \in BOOLEAN :
        /\ m => n > 0
        /\ nOptions' = n
        /\ textMatch' = m
        /\ pc' = IF n >= 1 THEN "C231" ELSE "C236"
    /\ UNCHANGED <<fn, env, subVars, exc, ret, bodyOut, withOut>>
    /\ UNCHANGED <<scopeVars, outVars>>
    /\ UNCHANGED <<calls, authState, finalProbe, form, stayed, sawFormGone, selIdx>>
    /\ UNCHANGED <<raised, totp, shown, shots>>

\* commands.py lines 228-236: query_selector_all and the choice between the
\* option at index 1 and the text match.
QueryOptions ==
    /\ InBody
    /\ Prog[pc].op = "query_selector_all"
    /\ \E n \in 0..MaxOptions, m \in BOOLEAN :
        /\ m => n > 0
        /\ nOptions' = n
        /\ textMatch' = m
        /\ pc' = IF n >= 2 THEN "C231" ELSE "C236"
    /\ UNCHANGED <<fn, env, subVars, exc, ret, bodyOut, withOut>>
    /\ UNCHANGED <<scopeVars, outVars>>
    /\ UNCHANGED <<calls, authState, finalProbe, form, stayed, sawFormGone, selIdx>>
    /\ UNCHANGED <<raised, totp, shown, shots>>

\* Variant: the loop over the error selectors starts again from the first
\* selector when it has tried the last one.
ForErrorSelectorAgain ==
    /\ InBody
    /\ Prog[pc].op = "for"
    /\ selIdx' = IF selIdx < NumErrorSelectors THEN selIdx + 1 ELSE 1
    /\ pc' = Prog[pc].t
    /\ UNCHANGED <<fn, env, subVars, exc, ret, bodyOut, withOut>>
    /\ UNCHANGED <<scopeVars, outVars>>
    /\ UNCHANGED <<calls, authState, finalProbe, form, stayed, sawFormGone, nOptions>>
    /\ UNCHANGED <<raised, totp, textMatch, shown, shots>>

\* Line 471: for selector in error_selectors.
ForErrorSelector ==
    /\ InBody
    /\ Prog[pc].op = "for"
    /\ IF selIdx < NumErrorSelectors
       THEN /\ selIdx' = selIdx + 1
            /\ pc' = Prog[pc].t
       ELSE /\ selIdx' = selIdx
            /\ pc' = "R480"
    /\ UNCHANGED <<fn, env, subVars, exc, ret, bodyOut, withOut>>
    /\ UNCHANGED <<scopeVars, outVars>>
    /\ UNCHANGED <<calls, authState, finalProbe, form, stayed, sawFormGone, nOptions>>
    /\ UNCHANGED <<raised, totp, textMatch, shown, shots>>

\* return inside the with-body: the generator is resumed and runs its finally.
ReturnStmt ==
    /\ InBody
    /\ Prog[pc].op = "return"
    /\ ret' = Prog[pc].t
    /\ bodyOut' = [kind |-> "return", exc |-> NoExc, val |-> Prog[pc].t]
    /\ pc' = "P106"
    /\ UNCHANGED <<fn, env, subVars, exc, withOut>>
    /\ UNCHANGED <<scopeVars, flowVars, outVars>>

\* raise inside the with-body.
RaiseStmt ==
    /\ InBody
    /\ Prog[pc].op = "raise"
    /\ RaiseAt(Exc(Prog[pc].cls, Prog[pc].msg, "body"), Prog[pc].try)
    /\ UNCHANGED <<fn, env, subVars, ret, withOut>>
    /\ UNCHANGED <<scopeVars, flowVars, outVars>>

----------------------------------------------------------------------------
(* playwright_context, lines 102-126: except clause and finally block.     *)

\* Lines 102-104: an exception raised by the acquisition, or thrown into the
\* generator at its yield by the with-body, is caught when it is a
\* PlaywrightError and replaced by MoneyMonkError.
ContextExcept ==
    /\ pc = "P102"
    /\ exc' = IF IsPlaywrightError(exc)
              THEN Exc("MoneyMonkError", "Failed to initialize Playwright browser", exc.src)
              ELSE exc
    /\ pc' = "P106"
    /\ UNCHANGED <<fn, env, subVars, ret, bodyOut, withOut>>
    /\ UNCHANGED <<scopeVars, flowVars, outVars>>

\* Variant: the browser is closed before the context and the page.
TeardownClosesBrowserFirst ==
       "P106" :> [res |-> "browser", next |-> "P111", broad |-> FALSE]
    @@ "P111" :> [res |-> "context", next |-> "P116", broad |-> FALSE]
    @@ "P116" :> [res |-> "page", next |-> "P121", broad |-> FALSE]
    @@ "P121" :> [res |-> "pw", next |-> "P127", broad |-> TRUE]

\* The finally block: broad is TRUE where the except clause around the close
\* call catches Exception (line 125), FALSE where it catches PlaywrightError
\* (lines 109, 114, 119).
TeardownSteps ==
       "P106" :> [res |-> "page", next |-> "P111", broad |-> FALSE]
    @@ "P111" :> [res |-> "context", next |-> "P116", broad |-> FALSE]
    @@ "P116" :> [res |-> "browser", next |-> "P121", broad |-> FALSE]
    @@ "P121" :> [res |-> "pw", next |-> "P127", broad |-> TRUE]

Caught(s, k) == s.broad \/ k \in {"PlaywrightTimeoutError", "PlaywrightError"}

\* if page: / if context: / if browser: / if pw: is false.
TeardownSkip ==
    /\ pc \in DOMAIN TeardownSteps
    /\ TeardownSteps[pc].res \notin acquired
    /\ pc' = TeardownSteps[pc].next
    /\ UNCHANGED <<fn, env, subVars, exc, ret, bodyOut, withOut>>
    /\ UNCHANGED <<scopeVars, flowVars, outVars>>

\* close() / stop() returns.
TeardownOk ==
    /\ pc \in DOMAIN TeardownSteps
    /\ LET s == TeardownSteps[pc] IN
        /\ s.res \in acquired
        /\ closeCalls' = [closeCalls EXCEPT ![s.res] = @ + 1]
        /\ tdOrder' = Append(tdOrder, s.res)
        /\ pc' = s.next
    /\ UNCHANGED <<fn, env, subVars, exc, ret, bodyOut, withOut, acquired, tdFailed>>
    /\ UNCHANGED <<flowVars, outVars>>

\* close() / stop() raises: logged and swallowed when the except clause
\* catches its class; otherwise it leaves the finally block, replacing the
\* exception in flight or the pending return.
TeardownRaise ==
    /\ pc \in DOMAIN TeardownSteps
    /\ LET s == TeardownSteps[pc] IN
        /\ s.res \in acquired
        /\ closeCalls' = [closeCalls EXCEPT ![s.res] = @ + 1]
        /\ tdOrder' = Append(tdOrder, s.res)
        /\ tdFailed' = TRUE
        /\ \E k \in RaiseKinds :
            IF Caught(s, k)
            THEN /\ pc' = s.next
                 /\ UNCHANGED <<exc, ret>>
            ELSE /\ pc' = "P127"
                 /\ exc' = Exc(k, "raw", "teardown")
                 /\ ret' = "none"
    /\ UNCHANGED <<fn, env, subVars, bodyOut, withOut, acquired>>
    /\ UNCHANGED <<flowVars, outVars>>

\* Variant: register_hours_on_website takes its failure screenshot (line
\* 400) after the with statement has been left.
AfterWithScreenshot(f) == IF f = "register_hours_node" THEN "R400" ELSE "H"

\* Where control goes when the with statement is left: to the except
\* clauses of the function (or to its caller); none of them touches the page.
AfterWith(f) == "H"

\* The with statement is left: with the exception in flight, or with the
\* value being returned.
ContextExit ==
    /\ pc = "P127"
    /\ withOut' = IF IsException(exc)
                  THEN [kind |-> "raise", exc |-> exc, val |-> "none"]
                  ELSE [kind |-> "return", exc |-> NoExc, val |-> ret]
    /\ pc' = AfterWith(fn)
    /\ UNCHANGED <<fn, env, subVars, exc, ret, bodyOut>>
    /\ UNCHANGED <<scopeVars, flowVars, outVars>>

----------------------------------------------------------------------------
(* The except clauses of the three functions and of register_hours_node.   *)

\* register_hours_on_website lines 486-497 and login_to_moneymonk lines
\* 232-243: what the function raises for exception e.
FunctionExcept(f, e) ==
    LET stage == IF f = "login_to_moneymonk" THEN "login" ELSE "registration" IN
    CASE e.cls \in {"ConfigurationError", "MoneyMonkError"} -> e
      [] e.cls = "PlaywrightTimeoutError"
           -> Exc("MoneyMonkError", "Operation timed out during " \o stage, e.src)
      [] e.cls = "PlaywrightError"
           -> Exc("MoneyMonkError", "A browser automation error occurred during " \o stage, e.src)
      [] OTHER
           -> Exc("MoneyMonkError", "An unexpected error during " \o stage, e.src)

\* What the caller of the entry point receives.
Returned(val) == [ok |-> (val = "True"), cls |-> "return", msg |-> val, src |-> "none"]

Raised(e) == [ok |-> FALSE, cls |-> e.cls, msg |-> e.msg, src |-> e.src]

\* register_hours_node lines 80-99: the state update returned to the workflow.
NodeResult(e, val) ==
    IF ~IsException(e)
    THEN IF val = "True"
         THEN [ok |-> TRUE, cls |-> "state",
               msg |-> "Hours registered successfully via Playwright.", src |-> "none"]
         ELSE [ok |-> FALSE, cls |-> "state",
               msg |-> "Hour registration failed via Playwright (returned False).",
               src |-> "none"]
    ELSE IF e.cls = "MoneyMonkError"
    THEN [ok |-> FALSE, cls |-> "state", msg |-> e.msg, src |-> e.src]
    ELSE IF IsPlaywrightError(e)
    THEN [ok |-> FALSE, cls |-> "state",
          msg |-> "Browser automation error during registration", src |-> e.src]
    ELSE [ok |-> FALSE, cls |-> "state",
          msg |-> "An unexpected error occurred during hour registration", src |-> e.src]

\* register_hours_on_website lines 486-497: control goes back to
\* register_hours_node with the function's return value or exception.
RegisterExcept ==
    /\ pc = "H"
    /\ fn = "register_hours_node"
    /\ exc' = IF IsException(exc) THEN FunctionExcept(fn, exc) ELSE exc
    /\ pc' = "N80"
    /\ UNCHANGED <<fn, env, subVars, ret, bodyOut, withOut>>
    /\ UNCHANGED <<scopeVars, flowVars, outVars>>

\* register_hours_node lines 80-99.
NodeReturn ==
    /\ pc = "N80"
    /\ result' = NodeResult(exc, ret)
    /\ outcomes' = outcomes + 1
    /\ pc' = "done"
    /\ UNCHANGED <<fn, env, subVars, exc, ret, bodyOut, withOut>>
    /\ UNCHANGED <<scopeVars, flowVars>>

\* login_to_moneymonk lines 230-243.
LoginExcept ==
    /\ pc = "H"
    /\ fn = "login_to_moneymonk"
    /\ result' = IF IsException(exc) THEN Raised(FunctionExcept(fn, exc)) ELSE Returned(ret)
    /\ outcomes' = outcomes + 1
    /\ pc' = "done"
    /\ UNCHANGED <<fn, env, subVars, exc, ret, bodyOut, withOut>>
    /\ UNCHANGED <<scopeVars, flowVars>>

\* login_command lines 297-310: every except clause ends in return False.
CommandExcept ==
    /\ pc = "H"
    /\ fn = "login_command"
    /\ result' = IF IsException(exc) THEN Returned("False") ELSE Returned(ret)
    /\ outcomes' = outcomes + 1
    /\ pc' = "done"
    /\ UNCHANGED <<fn, env, subVars, exc, ret, bodyOut, withOut>>
    /\ UNCHANGED <<scopeVars, flowVars>>

Next ==
    \/ Invoke
    \/ AcquireOk
    \/ AcquireRaise
    \/ PageCall
    \/ PageRaise
    \/ IsVisible
    \/ ResolveCredentials
    \/ CheckBaseUrl
    \/ TotpNow
    \/ QueryOptions
    \/ ForErrorSelector
    \/ ReturnStmt
    \/ RaiseStmt
    \/ ContextExcept
    \/ TeardownSkip
    \/ TeardownOk
    \/ TeardownRaise
    \/ ContextExit
    \/ RegisterExcept
    \/ NodeReturn
    \/ LoginExcept
    \/ CommandExcept

Spec == Init /\ [][Next]_vars

Done == pc = "done"

\* The run goes on as long as a step is left: every page operation
\* completes or times out within its bound (DEFAULT_TIMEOUT, line 24, and
\* the timeout arguments of the waits), and nothing else blocks.
SpecLive == Init /\ [][Next]_vars /\ WF_vars(Next)

----------------------------------------------------------------------------
(* tagui_client.py: login_to_moneymonk builds a TagUI script and hands it  *)
(* to _run_tagui_script, which runs it in a tagui subprocess.              *)

\* login_to_moneymonk lines 146-187 and _run_tagui_script lines 80-93; the
\* S positions are the lines of the script (155-184), executed by TagUI.
TagUISteps ==
       "T146" :> Op(146, "creds", "none", "T147", "none")
    @@ "T147" :> Op(147, "totp", "totp_now", "T82", "none")
    @@ "T82"  :> Op(82, "write", "none", "T91", "run")
    @@ "T91"  :> Op(91, "subprocess", "none", "S155", "run")
    @@ "S155" :> Op(155, "goto", "goto_login", "S156", "script")
    @@ "S156" :> Op(156, "wait_for_timeout", "none", "S159", "script")
    @@ "S159" :> Op(159, "fill", "fill_email", "S160", "script")
    @@ "S160" :> Op(160, "fill", "fill_password", "S161", "script")
    @@ "S161" :> Op(161, "click", "cred_submit", "S162", "script")
    @@ "S162" :> Op(162, "wait_for_timeout", "none", "S165", "script")
    @@ "S165" :> Probe(165, "mfa", "S168", "S177", "script")
    @@ "S168" :> Op(168, "fill", "totp_fill", "S169", "script")
    @@ "S169" :> Op(169, "click", "totp_submit", "S170", "script")
    @@ "S170" :> Op(170, "wait_for_timeout", "none", "S177", "script")
    @@ "S177" :> Probe(177, "dashboard", "T98", "T98", "script")

InitTagUI ==
    /\ fn = "tagui_login_to_moneymonk"
    /\ env \in [creds : BOOLEAN, baseUrl : {TRUE}]
    /\ pc = "T146"
    /\ acquired = {}
    /\ closeCalls = [r \in ResourceSet |-> 0]
    /\ exc = NoExc
    /\ ret = "none"
    /\ bodyOut = NoOut
    /\ withOut = NoOut
    /\ tdFailed = FALSE
    /\ result = NoResult
    /\ outcomes = 0
    /\ calls = [a \in Acts |-> 0]
    /\ authState = "Start"
    /\ finalProbe = "none"
    /\ form = [desc |-> TRUE, hours |-> TRUE]
    /\ stayed = [desc |-> TRUE, hours |-> TRUE]
    /\ sawFormGone = FALSE
    /\ selIdx = 0
    /\ nOptions = 0
    /\ tdOrder = <<>>
    /\ raised = {}
    /\ totp = NoTotp
    /\ textMatch = FALSE
    /\ shown = "none"
    /\ cr = NoResolution
    /\ shots = {}
    /\ wf = NoWorkflow
    /\ rt = NoRetry
    /\ st = NoStore
    /\ inv = NoInvocations

\* What the TagUI run leaves alone.
tagFixed == <<fn, env, subVars, bodyOut, withOut, scopeVars, finalProbe, form, stayed,
              sawFormGone, selIdx, nOptions, raised, textMatch, shown, shots>>

AtTagUI(op) == pc \in DOMAIN TagUISteps /\ TagUISteps[pc].op = op

\* Line 146: _get_moneymonk_credentials() of tagui_client.py (lines 22-58)
\* returns or raises ConfigurationError, re-raised at line 192.
TagUICredentials ==
    /\ AtTagUI("creds")
    /\ IF env.creds
       THEN /\ pc' = TagUISteps[pc].t
            /\ exc' = exc
       ELSE /\ pc' = "T189"
            /\ exc' = Exc("ConfigurationError", "not configured", "body")
    /\ UNCHANGED <<ret, result, outcomes, calls, authState, totp>>
    /\ UNCHANGED tagFixed

\* Line 147: totp_code = pyotp.TOTP(creds["totp_secret"]).now(), before the
\* script is built.
TagUITotpNow ==
    /\ AtTagUI("totp")
    /\ pc' = TagUISteps[pc].t
    /\ calls' = Count(TagUISteps[pc].act)
    /\ totp' = [state |-> "computed", detected |-> (authState = "MFARequired"),
                gap |-> FALSE]
    /\ UNCHANGED <<exc, ret, result, outcomes, authState>>
    /\ UNCHANGED tagFixed

\* Lines 82-93: the script file is written and the tagui process started.
TagUIStart ==
    /\ AtTagUI("write") \/ AtTagUI("subprocess")
    /\ pc' = TagUISteps[pc].t
    /\ UNCHANGED <<exc, ret, result, outcomes, calls, authState, totp>>
    /\ UNCHANGED tagFixed

\* pyotp raises at line 147 (caught at line 193), or the write or the start
\* of the process raises (caught at line 114 or 117): MoneyMonkError.
TagUIRaise ==
    /\ AtTagUI("totp") \/ AtTagUI("write") \/ AtTagUI("subprocess")
    /\ exc' = Exc("MoneyMonkError",
                  IF AtTagUI("totp") THEN "An unexpected error during login"
                  ELSE "An unexpected error occurred during TagUI execution",
                  "body")
    /\ pc' = IF AtTagUI("totp") THEN "T189" ELSE "T122"
    /\ UNCHANGED <<ret, result, outcomes, calls, authState, totp>>
    /\ UNCHANGED tagFixed

\* A step of the script (url, wait, type, click) is carried out by TagUI.
ScriptStep ==
    /\ pc \in DOMAIN TagUISteps
    /\ TagUISteps[pc].try = "script"
    /\ TagUISteps[pc].op \in PageOps
    /\ LET e == TagUISteps[pc] IN
        /\ pc' = e.t
        /\ calls' = Count(e.act)
        /\ authState' = AuthAfter(e.act)
        /\ totp' = TotpAfter(e)
    /\ UNCHANGED <<exc, ret, result, outcomes>>
    /\ UNCHANGED tagFixed

\* A step of the script fails (element not found): the script ends.
ScriptStepFails ==
    /\ pc \in DOMAIN TagUISteps
    /\ TagUISteps[pc].try = "script"
    /\ TagUISteps[pc].op \in PageOps
    /\ LET e == TagUISteps[pc] IN
        /\ pc' = "T98"
        /\ calls' = Count(e.act)
        /\ totp' = TotpAfter(e)
    /\ UNCHANGED <<exc, ret, result, outcomes, authState>>
    /\ UNCHANGED tagFixed

\* present #code (line 165) and present #dashboard-element (line 177).
ScriptPresent ==
    /\ AtTagUI("is_visible")
    /\ LET e == TagUISteps[pc] IN
        \E b \in BOOLEAN :
            /\ pc' = IF b THEN e.t ELSE e.f
            /\ authState' =
                 CASE e.what = "mfa" /\ b -> "MFARequired"
                   [] e.what = "dashboard" /\ b -> "Authenticated"
                   [] e.what = "dashboard" /\ ~b -> "Failed"
                   [] OTHER -> authState
    /\ UNCHANGED <<exc, ret, result, outcomes, calls, totp>>
    /\ UNCHANGED tagFixed

\* Lines 98-112: a non-zero exit code raises MoneyMonkError (line 103, caught
\* and wrapped again at line 117); exit code 0 returns True, whatever the
\* output says (lines 107-112).
ScriptExit ==
    /\ pc = "T98"
    /\ \E returncode \in {0, 1} :
        IF returncode # 0
        THEN /\ exc' = Exc("MoneyMonkError",
                           "An unexpected error occurred during TagUI execution", "body")
             /\ ret' = ret
        ELSE /\ ret' = "True"
             /\ exc' = exc
    /\ pc' = "T122"
    /\ UNCHANGED <<result, outcomes, calls, authState, totp>>
    /\ UNCHANGED tagFixed

\* Lines 120-127: the script file is deleted; an OSError is logged.
TagUICleanup ==
    /\ pc = "T122"
    /\ pc' = "T189"
    /\ UNCHANGED <<exc, ret, result, outcomes, calls, authState, totp>>
    /\ UNCHANGED tagFixed

\* Lines 187-195: the value is returned, or the error re-raised.
TagUIReturn ==
    /\ pc = "T189"
    /\ result' = IF IsException(exc) THEN Raised(exc) ELSE Returned(ret)
    /\ outcomes' = outcomes + 1
    /\ pc' = "done"
    /\ UNCHANGED <<exc, ret, calls, authState, totp>>
    /\ UNCHANGED tagFixed

NextTagUI ==
    \/ TagUICredentials
    \/ TagUITotpNow
    \/ TagUIStart
    \/ TagUIRaise
    \/ ScriptStep
    \/ ScriptStepFails
    \/ ScriptPresent
    \/ ScriptExit
    \/ TagUICleanup
    \/ TagUIReturn

SpecTagUI == InitTagUI /\ [][NextTagUI]_vars

----------------------------------------------------------------------------
(* register_hours_on_website lines 275-287: the credentials of a run, for  *)
(* every content of the environment, the config file and the keyring.      *)

InitCredentials ==
    /\ fn = "register_hours_node"
    /\ env = [creds |-> TRUE, baseUrl |-> TRUE]
    /\ pc = "R275"
    /\ acquired = ResourceSet
    /\ closeCalls = [r \in ResourceSet |-> 0]
    /\ exc = NoExc
    /\ ret = "none"
    /\ bodyOut = NoOut
    /\ withOut = NoOut
    /\ tdFailed = FALSE
    /\ result = NoResult
    /\ outcomes = 0
    /\ calls = [a \in Acts |-> 0]
    /\ authState = "Start"
    /\ finalProbe = "none"
    /\ form = [desc |-> TRUE, hours |-> TRUE]
    /\ stayed = [desc |-> TRUE, hours |-> TRUE]
    /\ sawFormGone = FALSE
    /\ selIdx = 0
    /\ nOptions = 0
    /\ tdOrder = <<>>
    /\ raised = {}
    /\ totp = NoTotp
    /\ textMatch = FALSE
    /\ shown = "none"
    /\ cr \in [env : SUBSET EnvFields, cfg : SUBSET ConfigFields,
                kr : SUBSET KeyringFields, creds : {NoFrom},
                out : {NoResolution.out}]
    /\ shots = {}
    /\ wf = NoWorkflow
    /\ rt = NoRetry
    /\ st = NoStore
    /\ inv = NoInvocations

\* What credential resolution leaves alone.
credFixed == <<fn, env, wf, rt, st, inv, exc, ret, bodyOut, withOut, scopeVars,
               flowVars, outVars>>

\* Lines 275-281: the four os.environ.get calls and the all([...]) test.
ReadEnvironment ==
    /\ pc = "R275"
    /\ IF \A f \in Fields : EnvGet(cr.env, f) # "none"
       THEN /\ cr' = [cr EXCEPT !.out = Resolved([f \in Fields |-> "env"])]
            /\ pc' = "R290"
       ELSE /\ cr' = cr
            /\ pc' = "R283"
    /\ UNCHANGED credFixed

\* Line 283: creds = _get_moneymonk_credentials().
GetCredentials ==
    /\ pc = "R283"
    /\ LET r == get_moneymonk_credentials(cr.env, cr.cfg, cr.kr) IN
        IF r.kind = "ok"
        THEN /\ cr' = [cr EXCEPT !.creds = r.from]
             /\ pc' = "R284"
        ELSE /\ cr' = [cr EXCEPT !.out = r]
             /\ pc' = "R290"
    /\ UNCHANGED credFixed

\* Lines 284-287: email = email or creds["username"], and so on.
MergeCredentials ==
    /\ pc = "R284"
    /\ cr' = [cr EXCEPT !.out =
                 Resolved([f \in Fields |-> OrElse(EnvGet(cr.env, f), cr.creds[f])])]
    /\ pc' = "R290"
    /\ UNCHANGED credFixed

NextCredentials ==
    \/ ReadEnvironment
    \/ GetCredentials
    \/ MergeCredentials

SpecCredentials == InitCredentials /\ [][NextCredentials]_vars

----------------------------------------------------------------------------
(* Concurrent invocations: get_accounting_api (api.py lines 15-21), then   *)
(* playwright_context and the page operations of the with-body, each       *)
(* invocation with its own locals.                                         *)

\* The browser run at rest: every variable of a run at its initial value.
RunIdle ==
    /\ fn = "register_hours_node"
    /\ env = [creds |-> TRUE, baseUrl |-> TRUE]
    /\ acquired = {}
    /\ closeCalls = [r \in ResourceSet |-> 0]
    /\ exc = NoExc
    /\ ret = "none"
    /\ bodyOut = NoOut
    /\ withOut = NoOut
    /\ tdFailed = FALSE
    /\ result = NoResult
    /\ outcomes = 0
    /\ calls = [a \in Acts |-> 0]
    /\ authState = "Start"
    /\ finalProbe = "none"
    /\ form = [desc |-> TRUE, hours |-> TRUE]
    /\ stayed = [desc |-> TRUE, hours |-> TRUE]
    /\ sawFormGone = FALSE
    /\ selIdx = 0
    /\ nOptions = 0
    /\ tdOrder = <<>>
    /\ raised = {}
    /\ totp = NoTotp
    /\ textMatch = FALSE
    /\ shown = "none"
    /\ shots = {}

runVars == <<fn, env, exc, ret, bodyOut, withOut, scopeVars, flowVars, outVars>>

InitConcurrent ==
    /\ RunIdle
    /\ pc = "idle"
    /\ cr = NoResolution
    /\ wf = NoWorkflow
    /\ rt = NoRetry
    /\ st = NoStore
    /\ inv = NoInvocations

concFixed == <<runVars, pc, cr, wf, rt, st>>

\* The steps of one invocation, by position: what the statement creates
\* and binds, and whether it operates on the page.
InvocationSteps ==
       "P96"  :> [makes |-> "browser", acts |-> FALSE, next |-> "P97"]
    @@ "P97"  :> [makes |-> "context", acts |-> FALSE, next |-> "P98"]
    @@ "P98"  :> [makes |-> "page", acts |-> FALSE, next |-> "R283"]
    @@ "R283" :> [makes |-> "creds", acts |-> FALSE, next |-> "R291"]
    @@ "R291" :> [makes |-> "none", acts |-> TRUE, next |-> "R298"]
    @@ "R298" :> [makes |-> "none", acts |-> TRUE, next |-> "R328"]
    @@ "R328" :> [makes |-> "none", acts |-> TRUE, next |-> "P106"]

\* Variant: the page is kept in a module-level name, as the API object is,
\* and an invocation that finds one there uses it.
new_page_cached(i, k) ==
    IF k = "page" /\ inv.made[k] > 0 THEN inv.made[k] ELSE inv.made[k] + 1

\* The object that the statement creating kind k binds in invocation i:
\* launch(), new_context(), new_page() and _get_moneymonk_credentials()
\* each return a new object.
new_handle(i, k) == inv.made[k] + 1

\* api.py lines 17-21: the singleton is read and, when None, created and
\* stored.  Only the AccountingAPI object and its agent are shared.
GetAccountingApi(i) ==
    /\ inv.pc[i] \in {"A18", "A20"}
    /\ IF inv.pc[i] = "A18"
       THEN inv' = [inv EXCEPT !.pc[i] = IF inv.api = 0 THEN "A20" ELSE "P96"]
       ELSE inv' = [inv EXCEPT !.pc[i] = "P96",
                               !.apis = @ + 1,
                               !.api = inv.apis + 1]
    /\ UNCHANGED concFixed

\* A statement that creates an object and binds it to a local name.
Create(i) ==
    /\ inv.pc[i] \in DOMAIN InvocationSteps
    /\ LET e == InvocationSteps[inv.pc[i]]
           h == new_handle(i, e.makes)
       IN /\ e.makes # "none"
          /\ inv' = [inv EXCEPT !.pc[i] = e.next,
                                 !.handle[i][e.makes] = h,
                                 !.made[e.makes] = IF h > @ THEN h ELSE @,
                                 !.created = @ \cup {<<e.makes, h, i>>}]
    /\ UNCHANGED concFixed

\* A page operation of the with-body: it acts on the page bound to the
\* local name page of this invocation.
Operate(i) ==
    /\ inv.pc[i] \in DOMAIN InvocationSteps
    /\ LET e == InvocationSteps[inv.pc[i]] IN
          /\ e.acts
          /\ inv' = [inv EXCEPT !.pc[i] = e.next,
                                 !.acted = @ \cup {<<i, inv.handle[i]["page"]>>}]
    /\ UNCHANGED concFixed

\* playwright_context lines 105-126: the session is closed and the local
\* names go out of scope.
CloseSession(i) ==
    /\ inv.pc[i] = "P106"
    /\ inv' = [inv EXCEPT !.pc[i] = "done"]
    /\ UNCHANGED concFixed

NextConcurrent ==
    \E i \in Invocations :
        \/ GetAccountingApi(i)
        \/ Create(i)
        \/ Operate(i)
        \/ CloseSession(i)

SpecConcurrent == InitConcurrent /\ [][NextConcurrent]_vars

----------------------------------------------------------------------------
(* The register-hours workflow: validate_input, then register_hours when   *)
(* there are no validation errors, then format_output (workflow.py lines   *)
(* 23-42), over a RegisterHoursState.                                      *)

\* Date strings, by their fields and separator; "%Y-%m-%d" wants three
\* fields separated by "-".
DateInputs ==
    {[sep |-> "-", f |-> <<2024, 5, 17>>],
     [sep |-> "-", f |-> <<17, 5, 2024>>],
     [sep |-> "/", f |-> <<2024, 5, 17>>],
     [sep |-> "-", f |-> <<2024, 2, 30>>],
     [sep |-> "-", f |-> <<>>]}

\* Descriptions, as sequences of characters.
DescriptionInputs == {<<>>, <<" ", " ">>, <<"f", "i", "x">>, <<" ", "x">>}

\* The hours argument as typed on the command line (commands.py line 325).
HoursInputs == {"abc", "", "-1", "0", "0.5", "7.5", "nan"}

\* A float: nan, or a number held in tenths.
Float(tenths) == [nan |-> FALSE, v |-> tenths]

NaN == [nan |-> TRUE, v |-> 0]

\* float(s): the float, or ValueError.
ParseFloat ==
       "abc" :> [ok |-> FALSE, x |-> Float(0)]
    @@ ""    :> [ok |-> FALSE, x |-> Float(0)]
    @@ "-1"  :> [ok |-> TRUE, x |-> Float(-10)]
    @@ "0"   :> [ok |-> TRUE, x |-> Float(0)]
    @@ "0.5" :> [ok |-> TRUE, x |-> Float(5)]
    @@ "7.5" :> [ok |-> TRUE, x |-> Float(75)]
    @@ "nan" :> [ok |-> TRUE, x |-> NaN]

\* x <= 0 on floats: every comparison with nan is False.
LeqZero(x) == IF x.nan THEN FALSE ELSE x.v <= 0

DaysIn(y, m) ==
    IF m = 2
    THEN (IF y % 4 = 0 /\ (y % 100 # 0 \/ y % 400 = 0) THEN 29 ELSE 28)
    ELSE IF m \in {4, 6, 9, 11} THEN 30 ELSE 31

\* datetime.strptime(d, "%Y-%m-%d") does not raise ValueError.
Strptime(d) ==
    /\ d.sep = "-"
    /\ Len(d.f) = 3
    /\ d.f[1] \in 1000..9999
    /\ d.f[2] \in 1..12
    /\ d.f[3] \in 1..DaysIn(d.f[1], d.f[2])

\* not description or not description.strip()
Blank(d) == \A n \in 1..Len(d) : d[n] = " "

\* What register_hours_on_website does for its caller: it returns True,
\* or raises MoneyMonkError, or lets ConfigurationError through (lines
\* 484-497).
RegisterOutcomes == {"True", "MoneyMonkError", "ConfigurationError"}

\* agent.py lines 57-67: the initial state of a request.
InitialState(date, description, hours) ==
    [at |-> "validate_input",
     date |-> date,
     description |-> description,
     hours |-> hours,
     hours_float |-> Float(0),
     validation_errors |-> <<>>,
     registration_successful |-> FALSE,
     registration_message |-> "",
     errors |-> <<>>,
     formatted_output |-> <<"", "">>,
     invoked |-> FALSE]

InitWorkflow ==
    /\ RunIdle
    /\ pc = "idle"
    /\ cr = NoResolution
    /\ rt = NoRetry
    /\ st = NoStore
    /\ inv = NoInvocations
    /\ \E d \in DateInputs, t \in DescriptionInputs, h \in HoursInputs :
          wf = InitialState(d, t, h)

wfFixed == <<runVars, pc, cr, rt, st, inv>>

\* The errors list that validate_input_node builds (lines 22-51).
ValidationErrors(state) ==
    LET dateErr == IF Strptime(state.date) THEN <<>>
                   ELSE <<"Invalid date format">>
        descErr == IF Blank(state.description)
                   THEN <<"Description cannot be empty.">> ELSE <<>>
        h == ParseFloat[state.hours]
        hoursErr == IF ~h.ok THEN <<"Invalid hours value">>
                    ELSE IF LeqZero(h.x)
                         THEN <<"Hours must be a positive number.">>
                         ELSE <<>>
    IN dateErr \o descErr \o hoursErr

\* validate_input_node (lines 19-59) and the state it leaves.
validate_input_node(state) ==
    LET errors == ValidationErrors(state) IN
    IF errors # <<>>
    THEN [state EXCEPT !.validation_errors = errors,
                       !.errors = state.errors \o errors]
    ELSE [state EXCEPT !.hours_float = ParseFloat[state.hours].x,
                       !.validation_errors = <<>>]

\* Variant: a failed registration is reported in registration_message
\* only, and nothing is appended to errors.
register_hours_node_message_only(state, outcome) ==
    IF state.validation_errors # <<>>
    THEN [state EXCEPT !.registration_successful = FALSE,
                       !.registration_message = "Input validation failed."]
    ELSE IF outcome = "True"
    THEN [state EXCEPT !.invoked = TRUE,
                       !.registration_successful = TRUE,
                       !.registration_message =
                           "Hours registered successfully via Playwright."]
    ELSE [state EXCEPT !.invoked = TRUE,
                       !.registration_successful = FALSE,
                       !.registration_message = outcome]

\* register_hours_node (lines 62-99), where outcome is what the call of
\* register_hours_on_website at line 78 does.
register_hours_node(state, outcome) ==
    IF state.validation_errors # <<>>
    THEN [state EXCEPT !.registration_successful = FALSE,
                       !.registration_message = "Input validation failed."]
    ELSE LET called == [state EXCEPT !.invoked = TRUE]
             failed(msg) ==
                 [called EXCEPT !.registration_successful = FALSE,
                                !.registration_message = msg,
                                !.errors = state.errors \o <<msg>>]
         IN CASE outcome = "True" ->
                   [called EXCEPT !.registration_successful = TRUE,
                                  !.registration_message =
                                      "Hours registered successfully via Playwright."]
              [] outcome = "False" ->
                   failed("Hour registration failed via Playwright (returned False).")
              [] outcome = "MoneyMonkError" ->
                   failed("MoneyMonkError")
              [] outcome \in {"PlaywrightTimeoutError", "PlaywrightError"} ->
                   failed("Browser automation error during registration")
              [] OTHER ->
                   failed("An unexpected error occurred during hour registration")

\* format_output_node (lines 102-118): the tag and the text of the output.
format_output_node(state) ==
    [state EXCEPT !.formatted_output =
        IF state.registration_successful
        THEN <<"[green]Success:[/green]", state.registration_message>>
        ELSE IF state.validation_errors # <<>>
        THEN <<"[red]Error:[/red]", "Input validation failed:">>
        ELSE IF state.errors # <<>>
        THEN <<"[red]Error:[/red]",
               IF state.registration_message # ""
               THEN state.registration_message ELSE state.errors[1]>>
        ELSE <<"[yellow]", "Unknown outcome for hour registration.">>]

\* The entry node and the conditional edge of workflow.py line 34.
ValidateInput ==
    /\ wf.at = "validate_input"
    /\ LET after == validate_input_node(wf) IN
          wf' = [after EXCEPT !.at = IF after.validation_errors # <<>>
                                     THEN "format_output"
                                     ELSE "register_hours"]
    /\ UNCHANGED wfFixed

RegisterHours ==
    /\ wf.at = "register_hours"
    /\ \E outcome \in RegisterOutcomes :
          wf' = [register_hours_node(wf, outcome) EXCEPT !.at = "format_output"]
    /\ UNCHANGED wfFixed

FormatOutput ==
    /\ wf.at = "format_output"
    /\ wf' = [format_output_node(wf) EXCEPT !.at = "END"]
    /\ UNCHANGED wfFixed

NextWorkflow == ValidateInput \/ RegisterHours \/ FormatOutput

SpecWorkflow == InitWorkflow /\ [][NextWorkflow]_vars

----------------------------------------------------------------------------
(* common/errors.py: retry_operation(operation, max_retries, retry_delay,  *)
(* error_types).                                                           *)

MaxRetries == 3

MaxDelay == 2

\* What a call of operation() can raise.
OperationErrors == {"TimeoutError", "ConnectionError", "KeyError"}

\* The error_types arguments: the default (Exception,) and narrower tuples.
ErrorTypes == {{"Exception"}, {"TimeoutError"}, {"TimeoutError", "ConnectionError"}}

\* except error_types as e: e is an instance of one of the classes.
Matches(e, types) == "Exception" \in types \/ e \in types

\* The names bound at module level in common/errors.py (lines 5-20) that
\* are not functions or classes of the module.
ModuleNames ==
    {"pathlib", "sys", "time", "traceback", "logger", "Console", "Panel",
     "console", "LOG_DIR", "LOG_FILE"}

RECURSIVE Pow2(_)
Pow2(n) == IF n = 0 THEN 1 ELSE 2 * Pow2(n - 1)

InitRetry ==
    /\ RunIdle
    /\ pc = "idle"
    /\ cr = NoResolution
    /\ wf = NoWorkflow
    /\ st = NoStore
    /\ inv = NoInvocations
    /\ \E n \in 1..MaxRetries, d \in 1..MaxDelay, t \in ErrorTypes :
          rt = [NoRetry EXCEPT !.at = "L104", !.max_retries = n,
                               !.retry_delay = d, !.error_types = t]

rtFixed == <<runVars, pc, cr, wf, st, inv>>

\* Lines 104-106: the loop test and the call of operation(), which returns
\* or raises.  An error that is not in error_types leaves the function.
CallOperation ==
    /\ rt.at = "L104"
    /\ IF rt.retries < rt.max_retries
       THEN \/ rt' = [rt EXCEPT !.calls = @ + 1,
                                !.at = "end",
                                !.out = [kind |-> "return", val |-> "result"]]
            \/ \E e \in OperationErrors :
                 rt' = IF Matches(e, rt.error_types)
                       THEN [rt EXCEPT !.calls = @ + 1,
                                       !.failures = Append(@, e),
                                       !.e = e,
                                       !.at = "L108"]
                       ELSE [rt EXCEPT !.calls = @ + 1,
                                       !.failures = Append(@, e),
                                       !.at = "end",
                                       !.out = [kind |-> "raise", val |-> e]]
       ELSE rt' = [rt EXCEPT !.at = "end",
                             !.out = [kind |-> "return", val |-> "None"]]
    /\ UNCHANGED rtFixed

\* Lines 108-115: the except clause.  Line 113 reads the name logging.
ExceptClause ==
    /\ rt.at = "L108"
    /\ LET retries == rt.retries + 1
           delay == rt.retry_delay * Pow2(retries - 1)
       IN IF retries >= rt.max_retries
          THEN rt' = [rt EXCEPT !.retries = retries,
                                !.at = "end",
                                !.out = [kind |-> "raise", val |-> rt.e]]
          ELSE IF "logging" \notin ModuleNames
          THEN rt' = [rt EXCEPT !.retries = retries,
                                !.at = "end",
                                !.out = [kind |-> "raise", val |-> "NameError"]]
          ELSE rt' = [rt EXCEPT !.retries = retries,
                                !.waits = Append(@, delay),
                                !.at = "L104"]
    /\ UNCHANGED rtFixed

NextRetry == CallOperation \/ ExceptClause

SpecRetry == InitRetry /\ [][NextRetry]_vars

----------------------------------------------------------------------------
(* common/state.py: the state file, DEFAULT_STATE and the operations on    *)
(* the application state.                                                  *)

TaskKeys == {"T-1", "T-2"}

Services == {"jira", "moneymonk"}

\* datetime.now().isoformat()
Now == "t1"

InitState ==
    /\ RunIdle
    /\ pc = "idle"
    /\ cr = NoResolution
    /\ wf = NoWorkflow
    /\ rt = NoRetry
    /\ inv = NoInvocations
    /\ st = NoStore

stFixed == <<runVars, pc, cr, wf, rt, inv>>

\* dict.copy(): a new dict with the same values, so the nested dicts of
\* the copy are the nested dicts of the original.
Copy(d) == [k \in DOMAIN d |-> d[k]]

\* save_state (lines 44-66): the contents of the state are written.
save_state(s, state, h) ==
    [s EXCEPT !.file = [kind |-> "json", data |-> Value(state, h)], !.heap = h]

\* load_state (lines 25-41): the state dict returned and the store after.
load_state(s) ==
    IF s.file.kind = "json"
    THEN LET h == [tt |-> [s.heap.tt EXCEPT !["L_tt"] = s.file.data.time_tracking],
                   ls |-> [s.heap.ls EXCEPT !["L_ls"] = s.file.data.last_sync]]
         IN [state |-> [current_task |-> s.file.data.current_task,
                        time_tracking |-> "L_tt", last_sync |-> "L_ls"],
             store |-> [s EXCEPT !.heap = h, !.src = "file"]]
    ELSE IF s.file.kind = "invalid"
    THEN [state |-> Copy(s.dflt), store |-> [s EXCEPT !.src = "defaults"]]
    ELSE [state |-> Copy(s.dflt),
          store |-> [save_state(s, Copy(s.dflt), s.heap) EXCEPT !.src = "defaults"]]

\* The updater functions of set_current_task, start_timer, stop_timer and
\* update_last_sync: the heap after the updater has run on state.
Updater(name, arg, state, h) ==
    CASE name = "set_current_task" ->
           [state |-> [state EXCEPT !.current_task = arg], heap |-> h]
      [] name = "start_timer" ->
           [state |-> state,
            heap |-> [h EXCEPT !.tt[state.time_tracking] =
                         [active |-> TRUE, started_at |-> Now, task_key |-> arg]]]
      [] name = "stop_timer" ->
           [state |-> state,
            heap |-> [h EXCEPT !.tt[state.time_tracking] =
                         IF @.started_at # None
                         THEN [active |-> FALSE, started_at |-> None, task_key |-> None]
                         ELSE [@ EXCEPT !.active = FALSE]]]
      [] name = "update_last_sync" ->
           [state |-> state,
            heap |-> [h EXCEPT !.ls[state.last_sync][arg] = Now]]

\* get_state (lines 69-72), and load_state called directly.
GetState ==
    /\ LET l == load_state(st) IN
          st' = [l.store EXCEPT !.op = "load_state",
                                !.ret = Value(l.state, l.store.heap)]
    /\ UNCHANGED stFixed

\* update_state (lines 75-81) with the updater of the named function.
update_state(name, arg) ==
    LET l == load_state(st)
        u == Updater(name, arg, l.state, l.store.heap)
        saved == save_state(l.store, u.state, u.heap)
    IN st' = [saved EXCEPT !.op = name, !.ret = Value(u.state, u.heap)]

SetCurrentTask ==
    /\ \E k \in TaskKeys \cup {None} : update_state("set_current_task", k)
    /\ UNCHANGED stFixed

StartTimer ==
    /\ \E k \in TaskKeys : update_state("start_timer", k)
    /\ UNCHANGED stFixed

StopTimer ==
    /\ update_state("stop_timer", None)
    /\ UNCHANGED stFixed

UpdateLastSync ==
    /\ \E service \in Services : update_state("update_last_sync", service)
    /\ UNCHANGED stFixed

\* The state file is removed, or left with contents that are not JSON.
FileLost ==
    /\ st.file.kind = "json"
    /\ \E k \in {"absent", "invalid"} :
          st' = [st EXCEPT !.file = [kind |-> k, data |-> OriginalDefaults],
                           !.op = "none"]
    /\ UNCHANGED stFixed

NextState ==
    \/ GetState
    \/ SetCurrentTask
    \/ StartTimer
    \/ StopTimer
    \/ UpdateLastSync
    \/ FileLost

SpecState == InitState /\ [][NextState]_vars

----------------------------------------------------------------------------
(* Properties.                                                             *)

\* Control is back with the caller of the with statement.
LeftScope == pc \in {"H", "N80", "done"}

Submitted == calls["submit"] > 0

\* One of the form's inputs has been visible ever since the submit click.
StayedVisible == stayed.desc \/ stayed.hours

EntryActs == {"goto_entry", "open_editor", "fill_hours", "fill_desc",
              "open_selector", "select_index", "select_text", "submit"}

LoginActs == {"goto_login", "fill_email", "fill_password", "cred_submit",
              "totp_now", "totp_fill", "totp_submit"}

\* C1: for every use of playwright_context, each resource that was acquired
\* has had its close/stop called exactly once when control is back with the
\* caller (and never more than once before that), on every exit path.
C1_EveryResourceClosedOnce ==
    /\ \A r \in ResourceSet : closeCalls[r] <= 1
    /\ LeftScope => \A r \in acquired : closeCalls[r] = 1

\* C2: a run that clicked the form's submit control reports success only if
\* a check after the submit click found the entry form no longer visible.
C2_SuccessOnlyAfterVerification ==
    (Done /\ Submitted /\ result.ok) => sawFormGone

\* C3: one invocation of register_hours_node delivers exactly one outcome
\* (never a second one), and when it is delivered every resource of the
\* browser session has been closed exactly once.
C3_OneOutcomeOneTeardown ==
    fn = "register_hours_node" =>
        /\ outcomes <= 1
        /\ Done => /\ outcomes = 1
                   /\ result.cls = "state"
                   /\ \A r \in acquired : closeCalls[r] = 1

\* C4: in one run the username, the password and the login submit are each
\* sent to the remote login at most once, whatever the login's outcome.
C4_CredentialsSubmittedAtMostOnce ==
    /\ calls["fill_email"] <= 1
    /\ calls["fill_password"] <= 1
    /\ calls["cred_submit"] <= 1

\* A login was rejected and the run ended, having submitted once.
C4_Witness ==
    Done /\ authState = "Failed" /\ calls["cred_submit"] = 1 /\ ~result.ok

\* C5: in one run each of navigate-to-dated-view, open-editor, fill,
\* select-project and submit is executed at most once; in particular submit
\* is never clicked again after a submit that failed or stayed undetermined.
C5_EntryStepsAtMostOnce ==
    /\ \A a \in EntryActs : calls[a] <= 1
    /\ calls["select_index"] + calls["select_text"] <= 1

\* The form was submitted, was still visible afterwards, and the run ended
\* in failure.
C5_Witness ==
    Done /\ Submitted /\ StayedVisible /\ ~result.ok /\ bodyOut.kind = "raise"
         /\ bodyOut.exc.msg = "Hour registration failed"

\* C6: when the final login probe saw the username or password input still
\* visible, the run ends in an authentication failure: MoneyMonkError
\* "Login failed..." from login_to_moneymonk, registration_successful = false
\* from register_hours_node, False from login_command; never in success.
C6_LoginFieldsVisibleIsAuthFailure ==
    (Done /\ finalProbe = "login_field") =>
        /\ ~result.ok
        /\ fn = "login_to_moneymonk" =>
              /\ result.cls = "MoneyMonkError"
              /\ result.msg = "Login failed: Still on login screen."

\* C7: when the entry form (its description or its hours input) stays
\* visible from the submit click to the end of the run's checks, the run ends
\* in failure, never in success.
C7_FormStillVisibleIsFailure ==
    (Done /\ Submitted /\ StayedVisible) => ~result.ok

\* C8: no navigation to the dated entry view and no entry-form action is
\* called unless the final login probe of the run saw no login field and no
\* MFA field (the handshake ended in Authenticated).
C8_EntryOnlyAfterAuthenticated ==
    \A a \in EntryActs :
        calls[a] > 0 => (authState = "Authenticated" /\ finalProbe = "clear")

\* The form was submitted in a run whose login went through the MFA step.
C8_Witness ==
    Submitted /\ authState = "Authenticated" /\ calls["totp_submit"] = 1

\* The edges of the login handshake.
AuthEdges ==
    { <<"Start", "CredentialsEntered">>,
      <<"CredentialsEntered", "PrimarySubmitted">>,
      <<"PrimarySubmitted", "MFARequired">>,
      <<"MFARequired", "MFASubmitted">>,
      <<"PrimarySubmitted", "Authenticated">>,
      <<"PrimarySubmitted", "Failed">>,
      <<"MFASubmitted", "Authenticated">>,
      <<"MFASubmitted", "Failed">> }

\* C9: the login handshake moves only along Start -> CredentialsEntered ->
\* PrimarySubmitted -> (MFARequired -> MFASubmitted) -> Authenticated or
\* Failed, and once Authenticated or Failed is reached the state stays and
\* no further login action is called.
C9_HandshakeOrder ==
    [][ /\ authState' # authState => <<authState, authState'>> \in AuthEdges
        /\ authState \in {"Authenticated", "Failed"} =>
              /\ authState' = authState
              /\ \A a \in LoginActs : calls'[a] = calls[a] ]_vars

\* A handshake that went through the MFA step and ended in Failed.
C9_Witness ==
    authState = "Failed" /\ calls["totp_submit"] = 1 /\ finalProbe = "mfa_field"

\* What leaves the with statement when no teardown step interferes: the
\* body's exception as playwright_context passes it on, or the body's
\* return value.
ExpectedOut ==
    IF bodyOut.kind = "raise"
    THEN [kind |-> "raise",
          exc |-> IF IsPlaywrightError(bodyOut.exc)
                  THEN Exc("MoneyMonkError", "Failed to initialize Playwright browser",
                           bodyOut.exc.src)
                  ELSE bodyOut.exc,
          val |-> "none"]
    ELSE bodyOut

\* C10: when a teardown step fails, the caller of the with statement still
\* observes the body's error (never the teardown error), and a body that
\* returned still returns its value.
C10_TeardownNeverMasks ==
    (LeftScope /\ tdFailed /\ bodyOut.kind # "none") => withOut = ExpectedOut

----------------------------------------------------------------------------
\* Position of a resource in the order page, context, browser, driver: the
\* reverse of the order of acquisition at lines 94-98.
ClosePosition(r) == CHOOSE i \in 1..Len(Resources) : Resources[i] = r

\* C11: on every exit path the close calls that are made come in the order
\* page, context, browser, driver stop; no resource is closed before one
\* that was acquired after it.
C11_TeardownOrder ==
    \A i, j \in 1..Len(tdOrder) :
        i < j => ClosePosition(tdOrder[i]) < ClosePosition(tdOrder[j])

\* A run whose body raised, with all four resources closed and one of the
\* close calls failing.
C11_Witness ==
    /\ LeftScope
    /\ bodyOut.kind = "raise"
    /\ tdFailed
    /\ tdOrder = Resources

----------------------------------------------------------------------------
\* The statements that operate on the page.
PageStatement(p) ==
    /\ p \in DOMAIN Prog
    /\ Prog[p].op \in PageOps \cup {"is_visible", "query_selector_all"}

\* C12: control is at a page operation only while the playwright_context
\* scope that owns the page is open: the page is bound, no close call has
\* been made and the with statement has not been left; after the exit the
\* three functions never use the page, context or browser again.
C12_NoPageUseAfterExit ==
    PageStatement(pc) =>
        /\ "page" \in acquired
        /\ tdOrder = << >>
        /\ withOut = NoOut

\* The scope has exited after page operations were performed in it.
C12_Witness ==
    /\ LeftScope
    /\ withOut # NoOut
    /\ closeCalls["page"] = 1
    /\ calls["goto_login"] > 0

----------------------------------------------------------------------------
\* The calls that timed out so far.
Timeouts == {r \in raised : r[3] = "PlaywrightTimeoutError"}

\* The selection-verification calls of login_command (lines 243-244), whose
\* timeout is handled at line 245 by logging a warning.
VerificationCalls == {"C243", "C244"}

HardTimeouts == {r \in Timeouts : r[1] \notin VerificationCalls}

\* After a timeout in T: no further fill, click or navigation is called, the
\* run does not end in success, and control never comes back to a call that
\* timed out.
NothingAfter(T) ==
    T # {} =>
        /\ calls' = calls
        /\ pc' = "done" => ~result'.ok
        /\ \A r \in T : ~(pc' = r[1] /\ selIdx' = r[2])

----------------------------------------------------------------------------
\* C14: the TOTP code filled into the MFA field was computed after the MFA
\* challenge was detected and directly before the fill: no wait, navigation
\* or click lies between the computation and the fill, and a code computed
\* before the primary submit is never filled.
C14_TotpComputedAtFill ==
    totp.state = "filled" => (totp.detected /\ ~totp.gap)

----------------------------------------------------------------------------
\* The highest-precedence source that has field f: the environment, then the
\* config file, then the keyring.
Highest(f) ==
    OrElse(EnvGet(cr.env, f), OrElse(ConfigGet(cr.cfg, f), KeyringGet(cr.kr, f)))

\* C15: for every content of the environment, the config file and the
\* keyring, the credentials of the run take each field from the
\* highest-precedence source that has it, and ConfigurationError is raised
\* exactly when some field is in none of the sources.
C15_CredentialPrecedence ==
    pc = "R290" =>
        IF \E f \in Fields : Highest(f) = "none"
        THEN cr.out = ConfigurationError
        ELSE cr.out = Resolved([f \in Fields |-> Highest(f)])

----------------------------------------------------------------------------
\* A credential or URL that register_hours_on_website requires is missing.
ConfigMissing == fn = "register_hours_node" /\ (~env.creds \/ ~env.baseUrl)

\* C16: when a required credential or URL is missing, no browser session is
\* launched and no action is performed against the remote site, and what
\* reaches the caller of register_hours_node is a configuration error.
C16_ConfigurationErrorFirst ==
    ConfigMissing =>
        /\ acquired = {}
        /\ \A a \in Acts : calls[a] = 0
        /\ Done => result.cls = "ConfigurationError"

----------------------------------------------------------------------------
\* C17: in login_command the option at index 1 is clicked only when at least
\* two options were found, and then no text match is tried; the option
\* containing the project name is clicked only when fewer than two were
\* found; once the selection step is over exactly one of the two was used.
C17_OneSelectionStrategy ==
    /\ calls["select_index"] > 0 => (nOptions >= 2 /\ calls["select_text"] = 0)
    /\ calls["select_text"] > 0 => (nOptions < 2 /\ calls["select_index"] = 0)
    /\ pc = "C240" => calls["select_index"] + calls["select_text"] = 1

\* A run that chose by index among two or more options and went on to
\* click submit.
C17_Witness ==
    /\ Done
    /\ nOptions >= 2
    /\ calls["select_index"] = 1
    /\ Submitted

\* C18: in login_command, when fewer than two options are rendered and none
\* contains the project name, the run ends in failure, no option is chosen
\* by index in its place and the submit button is never clicked.
C18_NoMatchIsFailure ==
    (calls["select_text"] > 0 /\ ~textMatch) =>
        /\ calls["select_index"] = 0
        /\ ~Submitted
        /\ Done => ~result.ok

\* Such a run: the text match was tried with no matching option, and the
\* run ended.
C18_Witness ==
    /\ Done
    /\ nOptions < 2
    /\ calls["select_text"] = 1
    /\ ~textMatch
    /\ <<"C236", 0, "PlaywrightTimeoutError">> \in raised

----------------------------------------------------------------------------
\* The selection verification of login_command found a mismatch: the wait
\* for the display to contain the project name (line 243) timed out.
Mismatch == <<"C243", 0, "PlaywrightTimeoutError">> \in raised

\* The failures that the display itself causes: the timeouts of the wait of
\* line 243 and of the read of the displayed value at line 250.
DisplayTimeouts ==
    {r \in raised : r[3] = "PlaywrightTimeoutError" /\ r[1] \in {"C243", "C250"}}

\* C19: a selection-verification mismatch, also when no value is displayed
\* at all, only produces a warning: unless something else fails, the run
\* goes on to click submit and does not end in failure.
C19_MismatchOnlyWarns ==
    (Done /\ Mismatch /\ raised = DisplayTimeouts /\ ~tdFailed) =>
        (Submitted /\ result.ok)

----------------------------------------------------------------------------
\* C20: once a check after the submit click has found the entry form no
\* longer visible, the result of the run is success, whether the lookup of
\* the description in the entry list (line 454) finds it, does not find it
\* or raises.
C20_LookupKeepsSuccess ==
    (Done /\ sawFormGone) => result.ok

----------------------------------------------------------------------------
\* The screenshot calls that are made because a failure was detected:
\* form_timeout.png (line 400) and, in login_command, login_failed.png,
\* the two form-fill error captures and time_input_not_found.png.
FailureScreenshots == {"R400", "C161", "C277", "C284", "C293"}

\* The run of register_hours_on_website failed in the login handshake or
\* in the entry-form steps.
RegisterFlowFailed ==
    /\ Done
    /\ fn = "register_hours_node"
    /\ calls["goto_login"] > 0
    /\ ~result.ok

\* C21: every failure of the login handshake or of the entry-form steps is
\* preceded in its run by exactly one screenshot taken for that failure.
C21_FailureHasScreenshot ==
    RegisterFlowFailed => Cardinality(shots \cap FailureScreenshots) = 1

----------------------------------------------------------------------------
\* The call at position p raised.
RaisedAt(p) == \E r \in raised : r[1] = p

\* A wait for the form elements (lines 390-396) timed out: the failure for
\* which form_timeout.png is taken at line 400.
FormWaitTimedOut ==
    \E r \in raised :
        r[1] \in {"R390", "R393", "R396"} /\ r[3] = "PlaywrightTimeoutError"

\* C22: when the screenshot taken for a failure itself fails, the caller is
\* told of the original failure: here of the form elements that were not
\* found, not of the screenshot.
C22_ScreenshotFailureNeverMasks ==
    (Done /\ FormWaitTimedOut /\ RaisedAt("R400")) =>
        result.msg = "Could not find registration form elements"

----------------------------------------------------------------------------
\* C23: a screenshot call does not alter the control flow: whether it
\* completes or fails, the run goes on with the same next statement, so
\* that the page actions and the result are those of the run in which every
\* screenshot succeeds.
C23_ScreenshotsObservational ==
    [][(InBody /\ Prog[pc].op = "screenshot") => pc' = Prog[pc].t]_vars

----------------------------------------------------------------------------
\* The body of register_hours_on_website ended with an exception of class
\* cls raised by a page call.
BodyRaised(cls) ==
    /\ fn = "register_hours_node"
    /\ bodyOut.kind = "raise"
    /\ bodyOut.exc.cls = cls

\* C24: a timeout of a page call inside register_hours_on_website reaches
\* the caller as "Operation timed out during registration", another browser
\* error as "A browser automation error occurred during registration";
\* neither as a browser-initialisation failure or an unexpected error.
C24_ErrorNamesStage ==
    Done =>
        /\ BodyRaised("PlaywrightTimeoutError")
             => result.msg = "Operation timed out during registration"
        /\ BodyRaised("PlaywrightError")
             => result.msg = "A browser automation error occurred during registration"

----------------------------------------------------------------------------
\* C25: concurrent invocations share no browser, context, page or
\* credentials object, and every page operation of an invocation acts on a
\* page that this invocation created, in any interleaving.
C25_NoSharedSession ==
    /\ \A i, j \in Invocations, k \in HandleKinds :
          (i # j /\ inv.handle[i][k] # 0) => inv.handle[i][k] # inv.handle[j][k]
    /\ \A a \in inv.acted : <<"page", a[2], a[1]>> \in inv.created

\* Two invocations have acted on their pages while both sessions were open.
C25_Witness ==
    /\ \A i \in {1, 2} : \E a \in inv.acted : a[1] = i
    /\ \A i \in {1, 2} : inv.pc[i] \in {"R298", "R328"}

----------------------------------------------------------------------------
\* The request is valid: the date parses as YYYY-MM-DD, the description is
\* non-blank and the hours parse to a number greater than zero.
ValidRequest ==
    /\ Strptime(wf.date)
    /\ ~Blank(wf.description)
    /\ ParseFloat[wf.hours].ok
    /\ ~ParseFloat[wf.hours].x.nan
    /\ ParseFloat[wf.hours].x.v > 0

\* C26: register_hours_on_website is invoked only for a valid request, and
\* a run with an invalid request ends without the call, with
\* registration_successful false and the validation messages.
C26_RegistrationOnlyAfterValidation ==
    /\ wf.at # "idle" /\ wf.invoked => ValidRequest
    /\ (wf.at = "END" /\ ~ValidRequest) =>
          /\ ~wf.invoked
          /\ ~wf.registration_successful
          /\ wf.validation_errors # <<>>

\* C28: a finished run has registration_successful true or a non-empty
\* errors list, its output is never the unknown-outcome text, and the output
\* is the success message exactly when registration_successful is true.
C28_OutcomeKnown ==
    wf.at = "END" =>
        /\ wf.registration_successful \/ wf.errors # <<>>
        /\ wf.formatted_output[1] # "[yellow]"
        /\ wf.formatted_output[1] = "[green]Success:[/green]"
              <=> wf.registration_successful

\* A run that called register_hours_on_website and saw it fail has ended.
C28_Witness ==
    /\ wf.at = "END"
    /\ wf.invoked
    /\ ~wf.registration_successful
    /\ wf.formatted_output[1] = "[red]Error:[/red]"

----------------------------------------------------------------------------
\* Every acquired resource has had its close called, unless a close raised
\* something other than a timeout or browser error and ended the teardown.
TeardownCompleted ==
    result.src # "teardown" => \A r \in acquired : closeCalls[r] = 1

----------------------------------------------------------------------------
\* C29: retry_operation with max_retries = n >= 1 has called the operation
\* at most n times when it ends; it returns the operation's result; an error
\* it raises is the error of the last call, raised after the n-th call when
\* the error is of error_types and at once otherwise; and it has waited
\* retry_delay * 2^(k-1) after the k-th failure that was followed by a call.
C29_RetryContract ==
    rt.at = "end" =>
        /\ rt.calls \in 1..rt.max_retries
        /\ rt.out.kind = "return" => rt.out.val = "result"
        /\ rt.out.kind = "raise" =>
              /\ rt.out.val = rt.failures[rt.calls]
              /\ Matches(rt.out.val, rt.error_types) => rt.calls = rt.max_retries
        /\ Len(rt.waits) = rt.calls - 1
        /\ \A k \in 1..Len(rt.waits) : rt.waits[k] = rt.retry_delay * Pow2(k - 1)

----------------------------------------------------------------------------
\* C30: no sequence of state operations changes DEFAULT_STATE, and a
\* load_state that finds the file absent or invalid returns the original
\* defaults.
C30_DefaultsIntact ==
    /\ Value(st.dflt, st.heap) = OriginalDefaults
    /\ (st.op = "load_state" /\ st.src = "defaults") => st.ret = OriginalDefaults

====
